---- MODULE Spec2Model ----
(***************************************************************************)
(* Workflow execution engine of pilot-backend.                             *)
(*                                                                         *)
(*   - WorkflowExecutionService (services/workflow_execution_service.py):  *)
(*     the topological scheduler _get_execution_order and the generator    *)
(*     execute_workflow that drives the node executors.                    *)
(*   - ExecutionService (services/execution_service.py): the generator     *)
(*     execute_workflow over a WorkflowExecution object, its persistence   *)
(*     call _update_execution_status, and the endpoints that start it      *)
(*     (api/v1/endpoints/workflows.py, executions.py).                     *)
(*                                                                         *)
(* A node object is identified by its position in workflow.nodes; its id   *)
(* is a label.  Ids are never compared by value in the code, so a node     *)
(* list is drawn up to renaming of ids (ids numbered by first occurrence). *)
(***************************************************************************)
EXTENDS Integers, Sequences, FiniteSets, TLC

\* ------------------------------------------------------------------ bounds
MaxNodes == 3
MaxEdges == 3
MaxRunNodes == 3
MaxRunEdges == 2
MaxServiceEdges == 1
MaxPairNodes == 2
MaxPieces == 3
MaxRecords == 3

\* ------------------------------------------------------------- state
VARIABLES
    nodes,            \* workflow.nodes: sequence of [id, type]
    edges,            \* workflow.edges: sequence of [source, target]
    sched_pc,         \* scheduler call: "call" before, "return" after
    sched_result,     \* list returned by _get_execution_order (node positions)
    route,            \* endpoint(s) the client posts to: "direct", "service", "both"
    input_data,       \* input payload of the run
    wes,              \* the run of WorkflowExecutionService.execute_workflow
    db,               \* the workflow_executions row of the execution id
    runs,             \* the runs of ExecutionService.execute_workflow
    active_executions,\* ExecutionService.active_executions of the execute endpoint
    cancel,           \* answer of the cancel_execution endpoint
    timeout_elapsed,  \* the request's timeout_seconds has passed
    resolver,         \* a call of _replace_variables: arguments and result
    answerer          \* a call of _execute_answer_node: argument and result

vars == <<nodes, edges, sched_pc, sched_result, route, input_data, wes,
          db, runs, active_executions, cancel, timeout_elapsed, resolver,
          answerer>>

\* ------------------------------------------------------------- helpers
Range(s) == {s[k] : k \in 1..Len(s)}

SeqsUpTo(S, n) == UNION {[1..k -> S] : k \in 0..n}

\* Index of the first occurrence of x in s (0 when absent).
IndexOf(s, x) ==
    IF \E k \in 1..Len(s) : s[k] = x
    THEN CHOOSE k \in 1..Len(s) : s[k] = x /\ \A j \in 1..(k - 1) : s[j] # x
    ELSE 0

\* Keys of {node.id: ... for node in workflow.nodes} in insertion order.
RECURSIVE DictKeys(_)
DictKeys(ns) ==
    IF ns = <<>> THEN <<>>
    ELSE LET front == DictKeys(SubSeq(ns, 1, Len(ns) - 1))
             id == ns[Len(ns)].id
         IN IF id \in Range(front) THEN front ELSE Append(front, id)

\* ------------------------------------------- _get_execution_order
\* graph = {node.id: []}; graph[edge.source].append(edge.target)
RECURSIVE BuildGraph(_, _)
BuildGraph(ns, es) ==
    IF es = <<>> THEN [id \in Range(DictKeys(ns)) |-> <<>>]
    ELSE LET g == BuildGraph(ns, SubSeq(es, 1, Len(es) - 1))
             e == es[Len(es)]
         IN [g EXCEPT ![e.source] = Append(@, e.target)]

\* in_degree = {node.id: 0}; in_degree[edge.target] += 1
RECURSIVE BuildInDegree(_, _)
BuildInDegree(ns, es) ==
    IF es = <<>> THEN [id \in Range(DictKeys(ns)) |-> 0]
    ELSE LET d == BuildInDegree(ns, SubSeq(es, 1, Len(es) - 1))
             e == es[Len(es)]
         IN [d EXCEPT ![e.target] = @ + 1]

\* Mutant of InitialQueue: the degree test of the seed is dropped.
InitialQueue_AllNodes(keys, in_degree) == keys

\* queue = [node_id for node_id, degree in in_degree.items() if degree == 0]
InitialQueue(keys, in_degree) ==
    SelectSeq(keys, LAMBDA id : in_degree[id] = 0)

\* for neighbor in graph[node_id]: in_degree[neighbor] -= 1; enqueue at zero
RECURSIVE RelaxNeighbors(_, _, _)
RelaxNeighbors(nbrs, in_degree, queue) ==
    IF nbrs = <<>> THEN [in_degree |-> in_degree, queue |-> queue]
    ELSE LET n == Head(nbrs)
             d == [in_degree EXCEPT ![n] = @ - 1]
         IN RelaxNeighbors(Tail(nbrs), d,
                           IF d[n] = 0 THEN Append(queue, n) ELSE queue)

\* while queue: node_id = queue.pop(0); result.append(node_id); relax
RECURSIVE KahnLoop(_, _, _, _)
KahnLoop(graph, in_degree, queue, result) ==
    IF queue = <<>> THEN result
    ELSE LET node_id == Head(queue)
             r == RelaxNeighbors(graph[node_id], in_degree, Tail(queue))
         IN KahnLoop(graph, r.in_degree, r.queue, Append(result, node_id))

\* node_map = {node.id: node for node in workflow.nodes}: the last node
\* declared under an id wins.  A node object is its position in ns.
NodeMap(ns) ==
    [id \in Range(DictKeys(ns)) |->
        CHOOSE k \in 1..Len(ns) :
            ns[k].id = id /\ \A j \in (k + 1)..Len(ns) : ns[j].id # id]

\* The id list the topological sort produces (variable `result`).
SortedIds(ns, es) ==
    LET in_degree == BuildInDegree(ns, es)
    IN KahnLoop(BuildGraph(ns, es), in_degree,
                InitialQueue(DictKeys(ns), in_degree), <<>>)

\* return [node_map[node_id] for node_id in result if node_id in node_map]
GetExecutionOrder(ns, es) ==
    LET result == SortedIds(ns, es)
        node_map == NodeMap(ns)
        kept == SelectSeq(result, LAMBDA id : id \in DOMAIN node_map)
    IN [k \in 1..Len(kept) |-> node_map[kept[k]]]

\* ------------------------------------------------- graph vocabulary
EdgePairs(es) == {<<es[k].source, es[k].target>> : k \in 1..Len(es)}

\* u reaches v along at least one edge, in at most `steps` hops.
RECURSIVE ReachWithin(_, _, _, _)
ReachWithin(es, u, v, steps) ==
    /\ steps > 0
    /\ \/ <<u, v>> \in EdgePairs(es)
       \/ \E w \in {p[2] : p \in {q \in EdgePairs(es) : q[1] = u}} :
              ReachWithin(es, w, v, steps - 1)

Reaches(ns, es, u, v) == ReachWithin(es, u, v, Len(ns))

IsAcyclic(ns, es) == \A k \in 1..Len(ns) : ~Reaches(ns, es, ns[k].id, ns[k].id)

HasCycle(ns, es) == ~IsAcyclic(ns, es)

UniqueIds(ns) == \A j, k \in 1..Len(ns) : ns[j].id = ns[k].id => j = k

\* ------------------------------------------------- values
\* A dict is a function from string keys to values.
EmptyDict == [k \in {} |-> ""]

\* dict.update(other)
DictUpdate(d, other) ==
    [k \in (DOMAIN d) \cup (DOMAIN other) |->
        IF k \in DOMAIN other THEN other[k] ELSE d[k]]

\* node.id as a string
IdNames == <<"n1", "n2", "n3", "n4", "n5">>

\* f"{node.id}.text"
QualifiedText == <<"n1.text", "n2.text", "n3.text", "n4.text", "n5.text">>

\* Texts the completion provider may return.
Texts == {"t1", "t2"}

NodeTypes == {"start", "llm", "answer"}

\* A progress fraction n/d; NoProgress is the None of an event without one.
Frac(n, d) == [n |-> n, d |-> d]

NoProgress == Frac(0, 0)

FracLeq(a, b) == a.n * b.d <= b.n * a.d

NoError == [msg |-> "", node |-> 0]

NoStartError == [msg |-> "No start node found in workflow", node |-> 0]

\* f"Node {node.id} failed: {str(e)}"
NodeFailedError(id) == [msg |-> "Node failed", node |-> id]

\* [n for n in workflow.nodes if n.type == NodeType.START]
StartNodes(ns) == {k \in 1..Len(ns) : ns[k].type = "start"}

\* WorkflowBase.validate_nodes: an empty list passes; a non-empty one needs
\* a START node.
ValidateNodes(ns) == ns = <<>> \/ StartNodes(ns) # {}

\* ------------------------------------------- _replace_variables
\* A string is a sequence of symbols.  "{", "}", "." and " " are the
\* characters the code looks at; every other symbol is an opaque letter or
\* word.  A value is a string or None.
Val(s) == [null |-> FALSE, s |-> s]

NoneValue == [null |-> TRUE, s |-> <<>>]

\* The Python string a symbol sequence spells (a dict key).
RECURSIVE Join(_)
Join(s) == IF s = <<>> THEN "" ELSE Head(s) \o Join(Tail(s))

\* Index of the first "}" of t at or after p (0 when there is none).
RECURSIVE FirstClose(_, _)
FirstClose(t, p) ==
    IF p > Len(t) THEN 0
    ELSE IF t[p] = "}" THEN p ELSE FirstClose(t, p + 1)

\* re.findall(r'\{\{([^}]+)\}\}', text): leftmost non-overlapping matches,
\* the group of each.
RECURSIVE FindAllFrom(_, _)
FindAllFrom(t, p) ==
    IF p + 4 > Len(t) THEN <<>>
    ELSE IF t[p] = "{" /\ t[p + 1] = "{"
         THEN LET q == FirstClose(t, p + 2)
              IN IF q >= p + 3 /\ q + 1 <= Len(t) /\ t[q + 1] = "}"
                 THEN <<SubSeq(t, p + 2, q - 1)>> \o FindAllFrom(t, q + 2)
                 ELSE FindAllFrom(t, p + 1)
         ELSE FindAllFrom(t, p + 1)

FindAll(t) == FindAllFrom(t, 1)

\* str.strip()
RECURSIVE Strip(_)
Strip(s) ==
    IF s = <<>> THEN s
    ELSE IF Head(s) = " " THEN Strip(Tail(s))
    ELSE IF s[Len(s)] = " " THEN Strip(SubSeq(s, 1, Len(s) - 1))
    ELSE s

\* str.replace(old, new): every non-overlapping occurrence, left to right.
RECURSIVE StrReplace(_, _, _)
StrReplace(s, old, new) ==
    IF Len(s) < Len(old) THEN s
    ELSE IF SubSeq(s, 1, Len(old)) = old
         THEN new \o StrReplace(SubSeq(s, Len(old) + 1, Len(s)), old, new)
         ELSE <<Head(s)>> \o StrReplace(Tail(s), old, new)

\* f"{{{{{variable_name}}}}}"
Placeholder(name) == <<"{", "{">> \o name \o <<"}", "}">>

\* dict.get(key)
DictGet(d, key) == IF key \in DOMAIN d THEN d[key] ELSE NoneValue

\* Mutant of ResolveValue: a dotted name is looked up in node_outputs only,
\* without the fall back to the variables.
ResolveValue_NoFallback(variable_name, variables, node_outputs) ==
    LET dot == IndexOf(variable_name, ".")
        node_id == Join(SubSeq(variable_name, 1, dot - 1))
        output_name == Join(SubSeq(variable_name, dot + 1, Len(variable_name)))
    IN IF dot > 0
       THEN IF node_id \in DOMAIN node_outputs
            THEN DictGet(node_outputs[node_id], output_name)
            ELSE NoneValue
       ELSE DictGet(variables, Join(variable_name))

\* Mutant of ResolveValue: the variable scope is asked first.
ResolveValue_ScopeFirst(variable_name, variables, node_outputs) ==
    LET dot == IndexOf(variable_name, ".")
        scoped == DictGet(variables, Join(variable_name))
        node_id == Join(SubSeq(variable_name, 1, dot - 1))
        output_name == Join(SubSeq(variable_name, dot + 1, Len(variable_name)))
    IN IF ~scoped.null THEN scoped
       ELSE IF dot > 0 /\ node_id \in DOMAIN node_outputs
            THEN DictGet(node_outputs[node_id], output_name)
            ELSE NoneValue

\* Lines 484-494: a dotted name is looked up in node_outputs first
\* (variable_name.split('.', 1)), then the whole name in the variables.
ResolveValue(variable_name, variables, node_outputs) ==
    LET dot == IndexOf(variable_name, ".")
        node_id == Join(SubSeq(variable_name, 1, dot - 1))
        output_name == Join(SubSeq(variable_name, dot + 1, Len(variable_name)))
        value == IF dot > 0 /\ node_id \in DOMAIN node_outputs
                 THEN DictGet(node_outputs[node_id], output_name)
                 ELSE NoneValue
    IN IF value.null THEN DictGet(variables, Join(variable_name)) ELSE value

\* Lines 482-498: the loop over the matches.
RECURSIVE ReplaceMatches(_, _, _, _)
ReplaceMatches(matches, result, variables, node_outputs) ==
    IF matches = <<>> THEN result
    ELSE LET variable_name == Strip(Head(matches))
             value == ResolveValue(variable_name, variables, node_outputs)
         IN ReplaceMatches(Tail(matches),
                IF value.null THEN result
                ELSE StrReplace(result, Placeholder(variable_name), value.s),
                variables, node_outputs)

\* WorkflowExecutionService._replace_variables.  node_outputs maps a node id
\* to the "outputs" dict of its record.
ReplaceVariables(text, variables, node_outputs) ==
    ReplaceMatches(FindAll(text), text, variables, node_outputs)

ResolverIdle ==
    [pc |-> "idle", text |-> <<>>, variables |-> EmptyDict,
     node_outputs |-> EmptyDict, result |-> <<>>]

AnswererIdle == [pc |-> "idle", node_outputs |-> <<>>, result |-> EmptyDict]

\* Values that are not strings, written in angle brackets, and what str()
\* makes of them; str() of a string is the string.
NonStrings == ("<True>" :> "True")

PyStr(value) == IF value \in DOMAIN NonStrings THEN NonStrings[value] ELSE value

\* ------------------------------- WorkflowExecutionService.execute_workflow
WesIdle ==
    [pc |-> "idle", status |-> "none", error_message |-> NoError,
     execution_order |-> <<>>, i |-> 0, executed_nodes |-> {},
     node_outputs |-> <<>>, variables |-> EmptyDict, events |-> <<>>,
     completion_calls |-> <<>>, output_data |-> EmptyDict]

\* A yielded dict: its type and the fields the claims read.
WesEvent(type, node_id, progress, error) ==
    [type |-> type, node_id |-> node_id, progress |-> progress, error |-> error]

\* The outputs map of a node record as it reads now.  The start node's
\* record holds the context's variables dict itself, not a copy: its
\* `outputs` field keeps what the dict held when the record was written.
OutputsOf(rec, variables) ==
    IF rec.aliases_variables THEN variables ELSE rec.outputs

\* The arguments _replace_variables gets from a run: the variables with
\* their values as strings, and node_outputs by node id.
WesScope(variables) == [k \in DOMAIN variables |-> Val(<<variables[k]>>)]

WesOutputMap(node_outputs, variables) ==
    [id \in {IdNames[node_outputs[k].node_id] : k \in 1..Len(node_outputs)} |->
        LET k == CHOOSE j \in 1..Len(node_outputs) :
                     IdNames[node_outputs[j].node_id] = id
        IN WesScope(OutputsOf(node_outputs[k], variables))]

\* node.data.prompt of the llm nodes.
PromptOf(node) == <<"Hi", " ", "{", "{", "sys", ".", "query", "}", "}">>

\* _execute_llm_node lines 230-238: the messages passed to the provider.
LlmMessages(node, variables, node_outputs) ==
    <<[role |-> "user",
       content |-> ReplaceVariables(PromptOf(node), WesScope(variables),
                                    WesOutputMap(node_outputs, variables))]>>

\* _execute_answer_node: scan node_outputs newest first for text/output/result.
RECURSIVE AnswerScan(_, _)
AnswerScan(node_outputs, variables) ==
    IF node_outputs = <<>> THEN ""
    ELSE LET outs == OutputsOf(node_outputs[Len(node_outputs)], variables)
         IN IF "text" \in DOMAIN outs THEN outs["text"]
            ELSE IF "output" \in DOMAIN outs THEN outs["output"]
            ELSE IF "result" \in DOMAIN outs THEN PyStr(outs["result"])
            ELSE AnswerScan(SubSeq(node_outputs, 1, Len(node_outputs) - 1),
                            variables)

\* Mutant of ExecuteAnswerNode: node_outputs is scanned oldest first.
ExecuteAnswerNode_OldestFirst(node_outputs, variables) ==
    LET outs(k) == OutputsOf(node_outputs[k], variables)
        hits == {k \in 1..Len(node_outputs) :
                    DOMAIN outs(k) \cap {"text", "output", "result"} # {}}
        first == CHOOSE k \in hits : \A j \in hits : k <= j
        final_output ==
            IF hits = {} THEN ""
            ELSE IF "text" \in DOMAIN outs(first) THEN outs(first)["text"]
            ELSE IF "output" \in DOMAIN outs(first) THEN outs(first)["output"]
            ELSE PyStr(outs(first)["result"])
    IN ("answer" :> final_output) @@ ("final_output" :> final_output)

\* _execute_answer_node: the outputs it returns.
ExecuteAnswerNode(node_outputs, variables) ==
    LET final_output == AnswerScan(node_outputs, variables)
    IN ("answer" :> final_output) @@ ("final_output" :> final_output)

\* The executor bodies dispatched by _execute_node.  `outcome` is what the
\* completion provider does: [ok |-> TRUE, text] or [ok |-> FALSE] (a missing
\* prompt raises in the same way).  raised = an exception leaves the executor.
WesExecutor(node, outcome, variables, node_outputs) ==
    CASE node.type = "start" ->
            [raised |-> FALSE, outputs |-> variables, aliases_variables |-> TRUE,
             calls |-> <<>>]
      [] node.type = "llm" ->
            IF outcome.ok
            THEN [raised |-> FALSE,
                  outputs |-> ("text" :> outcome.text)
                              @@ (QualifiedText[node.id] :> outcome.text),
                  aliases_variables |-> FALSE,
                  calls |-> <<[node_id |-> node.id,
                               messages |-> LlmMessages(node, variables,
                                                        node_outputs),
                               content |-> outcome.text]>>]
            ELSE [raised |-> TRUE, outputs |-> EmptyDict,
                  aliases_variables |-> FALSE, calls |-> <<>>]
      [] node.type = "answer" ->
            [raised |-> FALSE,
             outputs |-> ExecuteAnswerNode(node_outputs, variables),
             aliases_variables |-> FALSE, calls |-> <<>>]
      [] OTHER ->
            [raised |-> FALSE, outputs |-> EmptyDict, aliases_variables |-> FALSE,
             calls |-> <<>>]

\* _execute_node: try the executor; `except Exception` turns every failure
\* into a returned record with status "failed", so nothing is raised.
WesExecuteNode(node, outcome, variables, node_outputs) ==
    LET r == WesExecutor(node, outcome, variables, node_outputs)
    IN IF r.raised
       THEN [raised |-> FALSE, status |-> "failed", outputs |-> EmptyDict,
             aliases_variables |-> FALSE, calls |-> r.calls]
       ELSE [raised |-> FALSE, status |-> "completed", outputs |-> r.outputs,
             aliases_variables |-> r.aliases_variables, calls |-> r.calls]

\* What the provider can do for a node: only llm nodes call it.
Outcomes(node) ==
    IF node.type = "llm"
    THEN {[ok |-> TRUE, text |-> t] : t \in Texts} \cup {[ok |-> FALSE, text |-> ""]}
    ELSE {[ok |-> TRUE, text |-> ""]}

\* _extract_final_outputs
RECURSIVE MergeAnswerOutputs(_, _, _)
MergeAnswerOutputs(ns, node_outputs, variables) ==
    IF ns = <<>> THEN EmptyDict
    ELSE LET front == MergeAnswerOutputs(SubSeq(ns, 1, Len(ns) - 1),
                                         node_outputs, variables)
             n == ns[Len(ns)]
             hits == {k \in 1..Len(node_outputs) : node_outputs[k].node_id = n.id}
         IN IF n.type = "answer" /\ hits # {}
            THEN DictUpdate(front,
                     OutputsOf(node_outputs[CHOOSE k \in hits : TRUE], variables))
            ELSE front

ExtractFinalOutputs(ns, node_outputs, variables) ==
    IF \E k \in 1..Len(ns) : ns[k].type = "answer"
    THEN MergeAnswerOutputs(ns, node_outputs, variables)
    ELSE IF node_outputs # <<>>
         THEN OutputsOf(node_outputs[Len(node_outputs)], variables)
         ELSE EmptyDict

\* Mutant of WesNewContext: one variables dict is kept and shared, so a run
\* starts on the scope the service run has been writing.
WesNewContext_Shared(payload) ==
    IF runs["task"].variables # EmptyDict THEN runs["task"].variables ELSE payload

\* context = {"variables": input_data.copy()}: a dict of the run's own.
WesNewContext(payload) == payload

\* Lines 32-62: create the record, yield execution_started, build the
\* context, look for a start node, compute the order.  A missing start
\* node raises into the outer except (lines 127-136).
WES_Begin ==
    /\ route \in {"direct", "both"}
    /\ wes.pc = "idle"
    /\ LET started == <<WesEvent("execution_started", 0, NoProgress, NoError)>>
       IN IF StartNodes(nodes) = {}
          THEN wes' = [wes EXCEPT
                   !.pc = "done", !.status = "failed",
                   !.error_message = NoStartError,
                   !.variables = WesNewContext(input_data),
                   !.events = Append(started,
                       WesEvent("execution_failed", 0, NoProgress, NoStartError))]
          ELSE wes' = [wes EXCEPT
                   !.pc = "loop", !.status = "running",
                   !.variables = WesNewContext(input_data),
                   !.execution_order = GetExecutionOrder(nodes, edges),
                   !.events = started]
    /\ UNCHANGED <<answerer, resolver, nodes, edges, sched_pc, sched_result, route, input_data,
                   db, runs, active_executions, cancel, timeout_elapsed>>

\* Lines 64-104: one iteration of the loop over execution_order.
WES_Node ==
    /\ wes.pc = "loop"
    /\ wes.i < Len(wes.execution_order)
    /\ LET node == nodes[wes.execution_order[wes.i + 1]]
           progress == Frac(wes.i + 1, Len(wes.execution_order))
           ev_progress == WesEvent("progress_update", node.id, progress, NoError)
       IN IF node.id \in wes.executed_nodes
          THEN wes' = [wes EXCEPT !.i = @ + 1]
          ELSE \E outcome \in Outcomes(node) :
                 LET r == WesExecuteNode(node, outcome, wes.variables,
                                         wes.node_outputs)
                 IN IF r.raised
                    THEN wes' = [wes EXCEPT
                             !.pc = "finish", !.status = "failed",
                             !.error_message = NodeFailedError(node.id),
                             !.events = wes.events \o <<ev_progress,
                                 WesEvent("node_failed", node.id, NoProgress,
                                          NodeFailedError(node.id))>>]
                    ELSE wes' = [wes EXCEPT
                             !.i = @ + 1,
                             !.node_outputs = Append(@,
                                 [node_id |-> node.id, status |-> r.status,
                                  outputs |-> r.outputs,
                                  aliases_variables |-> r.aliases_variables]),
                             !.executed_nodes = @ \cup {node.id},
                             !.completion_calls = @ \o r.calls,
                             !.variables = DictUpdate(@,
                                 IF r.aliases_variables THEN @ ELSE r.outputs),
                             !.events = wes.events \o <<ev_progress,
                                 WesEvent("node_completed", node.id, NoProgress,
                                          NoError)>>]
    /\ UNCHANGED <<answerer, resolver, nodes, edges, sched_pc, sched_result, route, input_data,
                   db, runs, active_executions, cancel, timeout_elapsed>>

\* Lines 106-125: the loop is over (exhausted or left by break).
WES_Finish ==
    /\ \/ wes.pc = "loop" /\ wes.i = Len(wes.execution_order)
       \/ wes.pc = "finish"
    /\ IF wes.status # "failed"
       THEN LET out == ExtractFinalOutputs(nodes, wes.node_outputs, wes.variables)
            IN wes' = [wes EXCEPT
                   !.pc = "done", !.status = "completed", !.output_data = out,
                   !.events = Append(@,
                       WesEvent("execution_completed", 0, NoProgress, NoError))]
       ELSE wes' = [wes EXCEPT
                !.pc = "done",
                !.events = Append(@,
                    WesEvent("execution_failed", 0, NoProgress, wes.error_message))]
    /\ UNCHANGED <<answerer, resolver, nodes, edges, sched_pc, sched_result, route, input_data,
                   db, runs, active_executions, cancel, timeout_elapsed>>

\* ------------------------------------------------- inputs
\* Id lists numbered by first occurrence: s[1] = 1, s[k] <= 1 + max(s[1..k-1]).
IdLists(n) ==
    {s \in UNION {[1..k -> 1..n] : k \in 1..n} :
        \A k \in 1..Len(s) :
            \A v \in 1..(s[k] - 1) : \E j \in 1..(k - 1) : s[j] = v}

\* validate_edges: every edge endpoint is the id of a node of the list.
EdgeLists(ids, n) == SeqsUpTo([source : ids, target : ids], n)

\* ------------------------------------ ExecutionService.execute_workflow
\* The two invocations on one execution id: the fire-and-forget task of the
\* execute endpoint, and the generator the stream endpoint iterates.
Runs == {"task", "stream"}

ExecId == "e1"

\* ExecutionStatus values from which spec section 4.3 allows no transition.
TerminalStatuses == {"completed", "failed", "cancelled"}

\* ExecutionEvent: its type and the fields the claims read.
EsEvent(type, node_id, progress, error) ==
    [type |-> type, node_id |-> node_id, progress |-> progress, error |-> error]

\* str(e) of the exceptions that reach the outer except.
DbError == [msg |-> "update failed", node |-> 0]

NoOutput == [set |-> FALSE, result |-> ""]

\* A WorkflowExecution object together with the generator frame that runs it
\* (pc, i, context) and the events its consumer has received.
NewExecution(status, error_message) ==
    [pc |-> "idle", status |-> status, error_message |-> error_message,
     progress |-> Frac(0, 1), events |-> <<>>, delivered |-> <<>>,
     node_logs |-> <<>>, i |-> 0, variables |-> EmptyDict,
     node_outputs |-> <<>>, output_data |-> NoOutput, raised |-> NoError,
     escaped |-> FALSE]

NoRow == [exists |-> FALSE, status |-> "none", error_message |-> NoError]

NoCancel ==
    [resp |-> "none", at |-> [r \in Runs |-> [pc |-> "idle", logs |-> 0]]]

\* WorkflowExecution.add_event
AddEvent(x, ev) == [x EXCEPT !.events = Append(@, ev)]

\* yield execution.add_event(...): recorded, then handed to the consumer.
YieldEvent(x, ev) ==
    [x EXCEPT !.events = Append(@, ev), !.delivered = Append(@, ev)]

\* max(0.0, min(1.0, progress))
Clamp(p) ==
    IF p.n < 0 THEN Frac(0, 1) ELSE IF p.n > p.d THEN Frac(1, 1) ELSE p

\* WorkflowExecution.update_progress
UpdateProgress(x, p) ==
    AddEvent([x EXCEPT !.progress = Clamp(p)],
             EsEvent("progress_update", 0, Clamp(p), NoError))

\* Mutant of LoopProgress: the fraction counts the nodes still to run.
LoopProgress_Remaining(i, total_nodes) == Frac(total_nodes - i, total_nodes)

\* progress = i / total_nodes
LoopProgress(i, total_nodes) == Frac(i, total_nodes)

\* _update_execution_status: the row takes the object's status, and its
\* error_message when there is one.
UpdatedRow(row, x) ==
    [row EXCEPT !.status = x.status,
                !.error_message = IF x.error_message # NoError
                                  THEN x.error_message ELSE @]

\* _db_to_execution
DbToExecution(row) == NewExecution(row.status, row.error_message)

\* Executor outcomes in ExecutionService._execute_node.  start returns; llm
\* returns the provider's content or raises; every type outside
\* start/llm/condition/http-request/code reaches `NodeType.VARIABLE`, which
\* the NodeType enum does not define, and so raises.
EsMayReturn(node) == node.type \in {"start", "llm"}

EsMayRaise(node) == node.type \notin {"start"}

\* The node whose executor the run is in.
CurrentNode(x) == nodes[x.i + 1]

\* ExecutionContext.set_node_output
SetNodeOutput(x, node_id, output) ==
    [x EXCEPT !.node_outputs = Append(@, [node_id |-> node_id, output |-> output]),
              !.variables = DictUpdate(@, "input" :> output)]

\* Cooperative scheduling on the one event loop.  The task is scheduled by
\* create_task and its consumer takes each event without awaiting, so from
\* its creation on it runs without yielding the loop except inside an llm
\* executor; the stream's consumer awaits the send of every yielded event.
AtSuspension(x, r) ==
    IF r = "task"
    THEN \/ x.pc \in {"idle", "done"}
         \/ x.pc = "exec" /\ CurrentNode(x).type = "llm"
    ELSE x.pc # "except"

OthersSuspended(r) == \A q \in Runs \ {r} : AtSuspension(runs[q], q)

AllSuspended == \A q \in Runs : AtSuspension(runs[q], q)

\* Mutant of Finally: the removal is missing.
Finally_Skipped(r, active) == active

\* finally: if execution.id in self.active_executions: del ...  Only the
\* service instance of the execute endpoint holds the id (create_execution);
\* the stream endpoint builds its own ExecutionService, whose dict is empty.
Finally(r, active) == IF r = "task" THEN active \ {ExecId} ELSE active

\* Endpoint execute_workflow: create_execution inserts the row, builds the
\* object, registers it, and the run is handed to asyncio.create_task.
ES_Create ==
    /\ route \in {"service", "both"}
    /\ ~db.exists
    /\ db' = [exists |-> TRUE, status |-> "pending", error_message |-> NoError]
    /\ runs' = [runs EXCEPT !["task"] =
                   [NewExecution("pending", NoError) EXCEPT !.pc = "ready"]]
    /\ active_executions' = active_executions \cup {ExecId}
    /\ UNCHANGED <<answerer, resolver, nodes, edges, sched_pc, sched_result, route, input_data, wes,
                   cancel, timeout_elapsed>>

\* Endpoint stream_execution: get_execution on a fresh service loads the
\* row; execute_workflow is then called on the loaded object.
ES_StreamRequest ==
    /\ db.exists
    /\ runs["stream"].pc = "idle"
    /\ AllSuspended
    /\ runs' = [runs EXCEPT !["stream"] = [DbToExecution(db) EXCEPT !.pc = "ready"]]
    /\ UNCHANGED <<answerer, resolver, nodes, edges, sched_pc, sched_result, route, input_data, wes,
                   db, active_executions, cancel, timeout_elapsed>>

\* Lines 105-127: status RUNNING, persist, yield WORKFLOW_STARTED, look for
\* a start node, build the context.
ES_Begin(r) ==
    /\ runs[r].pc = "ready"
    /\ OthersSuspended(r)
    /\ LET x1 == [runs[r] EXCEPT !.status = "running"]
       IN \E db_ok \in BOOLEAN :
            IF ~db_ok
            THEN /\ runs' = [runs EXCEPT ![r] =
                        [x1 EXCEPT !.pc = "except", !.raised = DbError]]
                 /\ db' = db
            ELSE /\ db' = UpdatedRow(db, x1)
                 /\ LET x2 == YieldEvent(x1,
                                 EsEvent("workflow_started", 0, NoProgress, NoError))
                    IN runs' = [runs EXCEPT ![r] =
                           IF StartNodes(nodes) = {}
                           THEN [x2 EXCEPT !.pc = "except", !.raised = NoStartError]
                           ELSE [x2 EXCEPT !.pc = "loop", !.i = 0,
                                           !.variables = input_data]]
    /\ UNCHANGED <<answerer, resolver, nodes, edges, sched_pc, sched_result, route, input_data, wes,
                   active_executions, cancel, timeout_elapsed>>

\* Lines 129-156: progress event, NODE_STARTED, the node log, the executor call.
ES_NodeStart(r) ==
    /\ runs[r].pc = "loop"
    /\ runs[r].i < Len(nodes)
    /\ OthersSuspended(r)
    /\ LET x == runs[r]
           node == nodes[x.i + 1]
           x1 == UpdateProgress(x, LoopProgress(x.i, Len(nodes)))
           x2 == [x1 EXCEPT !.delivered = Append(@, x1.events[Len(x1.events)])]
           x3 == YieldEvent(x2, EsEvent("node_started", node.id, NoProgress, NoError))
       IN runs' = [runs EXCEPT ![r] =
              [x3 EXCEPT !.pc = "exec",
                         !.node_logs = Append(@,
                             [node_id |-> node.id, status |-> "running",
                              output_data |-> NoOutput, error_message |-> NoError])]]
    /\ UNCHANGED <<answerer, resolver, nodes, edges, sched_pc, sched_result, route, input_data, wes,
                   db, active_executions, cancel, timeout_elapsed>>

\* The values an executor can return under "output".
EsOutputs(node) == IF node.type = "start" THEN {"<variables>"} ELSE Texts

\* Lines 158-173: the executor returned.
ES_NodeReturn(r) ==
    /\ runs[r].pc = "exec"
    /\ EsMayReturn(CurrentNode(runs[r]))
    /\ OthersSuspended(r)
    /\ \E out \in EsOutputs(CurrentNode(runs[r])) :
         LET x == runs[r]
             node == CurrentNode(x)
             x1 == [x EXCEPT !.node_logs[Len(x.node_logs)] =
                        [@ EXCEPT !.status = "completed",
                                  !.output_data = [set |-> TRUE, result |-> out]]]
             x2 == SetNodeOutput(x1, node.id, out)
             x3 == YieldEvent(x2, EsEvent("node_completed", node.id, NoProgress, NoError))
         IN runs' = [runs EXCEPT ![r] = [x3 EXCEPT !.pc = "loop", !.i = @ + 1]]
    /\ UNCHANGED <<answerer, resolver, nodes, edges, sched_pc, sched_result, route, input_data, wes,
                   db, active_executions, cancel, timeout_elapsed>>

\* Mutant of NodeFailure: the break is missing, the loop goes on.
NodeFailure_NoBreak(x, node) ==
    LET x1 == [x EXCEPT !.node_logs[Len(x.node_logs)] =
                   [@ EXCEPT !.status = "failed",
                             !.error_message = NodeFailedError(node.id)]]
        x2 == YieldEvent(x1, EsEvent("node_failed", node.id, NoProgress,
                                     NodeFailedError(node.id)))
    IN [x2 EXCEPT !.status = "failed",
                  !.error_message = NodeFailedError(node.id),
                  !.pc = "loop", !.i = @ + 1]

\* Lines 175-191: the executor raised: failed log, NODE_FAILED, status
\* FAILED, break.
NodeFailure(x, node) ==
    LET x1 == [x EXCEPT !.node_logs[Len(x.node_logs)] =
                   [@ EXCEPT !.status = "failed",
                             !.error_message = NodeFailedError(node.id)]]
        x2 == YieldEvent(x1, EsEvent("node_failed", node.id, NoProgress,
                                     NodeFailedError(node.id)))
    IN [x2 EXCEPT !.status = "failed",
                  !.error_message = NodeFailedError(node.id),
                  !.pc = "finish"]

ES_NodeRaise(r) ==
    /\ runs[r].pc = "exec"
    /\ EsMayRaise(CurrentNode(runs[r]))
    /\ OthersSuspended(r)
    /\ runs' = [runs EXCEPT ![r] = NodeFailure(runs[r], CurrentNode(runs[r]))]
    /\ UNCHANGED <<answerer, resolver, nodes, edges, sched_pc, sched_result, route, input_data, wes,
                   db, active_executions, cancel, timeout_elapsed>>

\* context.get_final_output()["result"]
FinalResult(x) == IF "input" \in DOMAIN x.variables THEN x.variables["input"] ELSE ""

\* Lines 193-214 and the finally: terminal status, persist, final event.
ES_Complete(r) ==
    /\ \/ runs[r].pc = "loop" /\ runs[r].i = Len(nodes)
       \/ runs[r].pc = "finish"
    /\ OthersSuspended(r)
    /\ LET x == runs[r]
           x1 == IF x.status # "failed"
                 THEN UpdateProgress(
                          [x EXCEPT !.status = "completed",
                                    !.output_data = [set |-> TRUE,
                                                     result |-> FinalResult(x)]],
                          Frac(1, 1))
                 ELSE x
       IN \E db_ok \in BOOLEAN :
            IF ~db_ok
            THEN /\ runs' = [runs EXCEPT ![r] =
                        [x1 EXCEPT !.pc = "except", !.raised = DbError]]
                 /\ UNCHANGED <<db, active_executions>>
            ELSE /\ db' = UpdatedRow(db, x1)
                 /\ runs' = [runs EXCEPT ![r] =
                        [YieldEvent(x1,
                            IF x1.status = "completed"
                            THEN EsEvent("workflow_completed", 0, NoProgress, NoError)
                            ELSE EsEvent("workflow_failed", 0, NoProgress,
                                         x1.error_message))
                         EXCEPT !.pc = "done"]]
                 /\ active_executions' = Finally(r, active_executions)
    /\ UNCHANGED <<answerer, resolver, nodes, edges, sched_pc, sched_result, route, input_data, wes,
                   cancel, timeout_elapsed>>

\* Lines 216-232: the outer except and the finally.  A second failure of
\* the persistence call leaves the generator as an exception.
ES_Except(r) ==
    /\ runs[r].pc = "except"
    /\ OthersSuspended(r)
    /\ LET x == runs[r]
           x1 == [x EXCEPT !.status = "failed", !.error_message = x.raised]
       IN \E db_ok \in BOOLEAN :
            IF ~db_ok
            THEN /\ runs' = [runs EXCEPT ![r] =
                        [x1 EXCEPT !.pc = "done", !.escaped = TRUE]]
                 /\ db' = db
            ELSE /\ db' = UpdatedRow(db, x1)
                 /\ runs' = [runs EXCEPT ![r] =
                        [YieldEvent(x1, EsEvent("workflow_failed", 0, NoProgress,
                                                x.raised))
                         EXCEPT !.pc = "done"]]
    /\ active_executions' = Finally(r, active_executions)
    /\ UNCHANGED <<answerer, resolver, nodes, edges, sched_pc, sched_result, route, input_data, wes,
                   cancel, timeout_elapsed>>

\* Endpoint cancel_execution: 400 unless the loaded execution is running;
\* otherwise the answer "Execution cancelled" is returned.  The cancellation
\* itself is a TODO: nothing is written.  `at` notes, for the claims, where
\* each run stood when the request was answered.
ES_Cancel ==
    /\ db.exists
    /\ cancel.resp = "none"
    /\ AllSuspended
    /\ cancel' = [resp |-> IF DbToExecution(db).status = "running"
                           THEN "accepted" ELSE "rejected",
                  at |-> [r \in Runs |->
                             [pc |-> runs[r].pc, logs |-> Len(runs[r].node_logs)]]]
    /\ UNCHANGED <<answerer, resolver, nodes, edges, sched_pc, sched_result, route, input_data, wes,
                   db, runs, active_executions, timeout_elapsed>>

\* The caller's ExecutionRequest.timeout_seconds elapses while the task is
\* still running.  No code reads timeout_seconds: nothing reacts.
ES_Timeout ==
    /\ ~timeout_elapsed
    /\ runs["task"].status = "running"
    /\ runs["task"].pc # "done"
    /\ AllSuspended
    /\ timeout_elapsed' = TRUE
    /\ UNCHANGED <<answerer, resolver, nodes, edges, sched_pc, sched_result, route, input_data, wes,
                   db, runs, active_executions, cancel>>

\* ------------------------------------------------- the two drivers
\* Payloads a run is started with.
InputPayloads == {("sys.query" :> "world") @@ ("input" :> "hello")}

Init ==
    /\ \E n \in 0..MaxRunNodes :
         /\ nodes \in [1..n -> {[id |-> k, type |-> t] : k \in 1..n, t \in NodeTypes}]
         /\ \A k \in 1..n : nodes[k].id = k
    /\ ValidateNodes(nodes)
    /\ route \in {"direct", "service"}
    /\ edges \in EdgeLists(Range(DictKeys(nodes)),
                           IF route = "direct" THEN MaxRunEdges
                                               ELSE MaxServiceEdges)
    /\ sched_pc = "call"
    /\ sched_result = <<>>
    /\ input_data \in InputPayloads
    /\ wes = WesIdle
    /\ db = NoRow
    /\ runs = [r \in Runs |-> NewExecution("none", NoError)]
    /\ active_executions = {}
    /\ cancel = NoCancel
    /\ timeout_elapsed = FALSE
    /\ resolver = ResolverIdle
    /\ answerer = AnswererIdle

Next ==
    \/ WES_Begin
    \/ WES_Node
    \/ WES_Finish
    \/ ES_Create
    \/ \E r \in Runs : ES_Begin(r)
    \/ \E r \in Runs : ES_NodeStart(r)
    \/ \E r \in Runs : ES_NodeReturn(r)
    \/ \E r \in Runs : ES_NodeRaise(r)
    \/ \E r \in Runs : ES_Complete(r)
    \/ \E r \in Runs : ES_Except(r)

\* One run of a workflow, posted either to /execute/{workflow_id}
\* (WorkflowExecutionService) or to /{workflow_id}/execute (ExecutionService,
\* the fire-and-forget task).
Spec == Init /\ [][Next]_vars

\* A client session on one execution id: the execute endpoint, then the
\* stream endpoint, the cancel endpoint, and the caller's timeout.
\* ExecutionService.execute_workflow never reads workflow.edges, so the
\* workflows are drawn without edges.
StreamInit == Init /\ route = "service" /\ edges = <<>>

StreamNext ==
    \/ ES_Create
    \/ ES_StreamRequest
    \/ \E r \in Runs : ES_Begin(r)
    \/ \E r \in Runs : ES_NodeStart(r)
    \/ \E r \in Runs : ES_NodeReturn(r)
    \/ \E r \in Runs : ES_NodeRaise(r)
    \/ \E r \in Runs : ES_Complete(r)
    \/ \E r \in Runs : ES_Except(r)
    \/ ES_Cancel
    \/ ES_Timeout

SpecStream == StreamInit /\ [][StreamNext]_vars

\* ------------------------------------------------- concurrent runs
\* Three runs in one process: a WorkflowExecutionService run, the task of
\* the execute endpoint and a stream run, interleaved at every step.
PairInit ==
    /\ \E n \in 0..MaxPairNodes :
         /\ nodes \in [1..n -> {[id |-> k, type |-> t] : k \in 1..n, t \in NodeTypes}]
         /\ \A k \in 1..n : nodes[k].id = k
    /\ ValidateNodes(nodes)
    /\ route = "both"
    /\ edges = <<>>
    /\ sched_pc = "call"
    /\ sched_result = <<>>
    /\ input_data \in InputPayloads
    /\ wes = WesIdle
    /\ db = NoRow
    /\ runs = [r \in Runs |-> NewExecution("none", NoError)]
    /\ active_executions = {}
    /\ cancel = NoCancel
    /\ timeout_elapsed = FALSE
    /\ resolver = ResolverIdle
    /\ answerer = AnswererIdle

PairNext ==
    \/ WES_Begin
    \/ WES_Node
    \/ WES_Finish
    \/ ES_Create
    \/ ES_StreamRequest
    \/ \E r \in Runs : ES_Begin(r)
    \/ \E r \in Runs : ES_NodeStart(r)
    \/ \E r \in Runs : ES_NodeReturn(r)
    \/ \E r \in Runs : ES_NodeRaise(r)
    \/ \E r \in Runs : ES_Complete(r)
    \/ \E r \in Runs : ES_Except(r)

SpecPair == PairInit /\ [][PairNext]_vars

\* ------------------------------------------------- resolver alone
\* The pieces templates are put together from: placeholders, with and
\* without padding, and literal characters.
Pieces ==
    {Placeholder(<<"x">>), Placeholder(<<" ", "x", " ">>), Placeholder(<<"u">>),
     Placeholder(<<"k">>), Placeholder(<<"n", ".", "t">>),
     Placeholder(<<"n", ".", "z">>), <<"{">>, <<"}">>, <<"a">>, <<" ">>}

RECURSIVE Flatten(_)
Flatten(ps) == IF ps = <<>> THEN <<>> ELSE Head(ps) \o Flatten(Tail(ps))

Templates == {Flatten(ps) : ps \in SeqsUpTo(Pieces, MaxPieces)}

\* Variable scopes: x is bound to a word or to text with braces, k to None,
\* and "n.z" is a plain key with a dot; some scopes also bind u and the
\* dotted key "n.t".
Scopes ==
    {("x" :> Val(v)) @@ ("k" :> NoneValue) @@ ("n.z" :> Val(<<"q">>)) @@ more :
        v \in {<<"v">>, Placeholder(<<"u">>)},
        more \in {EmptyDict, ("u" :> Val(<<"r">>)) @@ ("n.t" :> Val(<<"s">>))}}

\* Node-output maps: empty, or node n with output t, bound to a word or
\* to None.
OutputMaps ==
    {EmptyDict, "n" :> ("t" :> Val(<<"w">>)), "n" :> ("t" :> NoneValue)}

ResolveInit ==
    /\ nodes = <<>>
    /\ edges = <<>>
    /\ sched_pc = "call"
    /\ sched_result = <<>>
    /\ route = "none"
    /\ input_data = EmptyDict
    /\ wes = WesIdle
    /\ db = NoRow
    /\ runs = [r \in Runs |-> NewExecution("none", NoError)]
    /\ active_executions = {}
    /\ cancel = NoCancel
    /\ timeout_elapsed = FALSE
    /\ answerer = AnswererIdle
    /\ \E text \in Templates, variables \in Scopes, node_outputs \in OutputMaps :
           resolver = [ResolverIdle EXCEPT !.pc = "call", !.text = text,
                                           !.variables = variables,
                                           !.node_outputs = node_outputs]

ResolveCall ==
    /\ resolver.pc = "call"
    /\ resolver' = [resolver EXCEPT
           !.pc = "return",
           !.result = ReplaceVariables(resolver.text, resolver.variables,
                                       resolver.node_outputs)]
    /\ UNCHANGED <<answerer, nodes, edges, sched_pc, sched_result, route,
                   input_data, wes, db, runs, active_executions, cancel,
                   timeout_elapsed>>

ResolveNext == ResolveCall

SpecResolve == ResolveInit /\ [][ResolveNext]_vars

\* ------------------------------------------------- runs on sparse graphs
\* As Spec, with the shorter edge lists on both routes.
SparseInit ==
    /\ \E n \in 0..MaxRunNodes :
         /\ nodes \in [1..n -> {[id |-> k, type |-> t] : k \in 1..n, t \in NodeTypes}]
         /\ \A k \in 1..n : nodes[k].id = k
    /\ ValidateNodes(nodes)
    /\ route \in {"direct", "service"}
    /\ edges \in EdgeLists(Range(DictKeys(nodes)), MaxServiceEdges)
    /\ sched_pc = "call"
    /\ sched_result = <<>>
    /\ input_data \in InputPayloads
    /\ wes = WesIdle
    /\ db = NoRow
    /\ runs = [r \in Runs |-> NewExecution("none", NoError)]
    /\ active_executions = {}
    /\ cancel = NoCancel
    /\ timeout_elapsed = FALSE
    /\ resolver = ResolverIdle
    /\ answerer = AnswererIdle

SpecSparse == SparseInit /\ [][Next]_vars

\* ------------------------------------------------- direct runs
\* Runs of WorkflowExecutionService.execute_workflow on a payload that has
\* a "text" key of its own.
FlowPayloads ==
    {("sys.query" :> "world") @@ ("input" :> "hello") @@ ("text" :> "draft")}

FlowInit ==
    /\ \E n \in 0..MaxRunNodes :
         /\ nodes \in [1..n -> {[id |-> k, type |-> t] : k \in 1..n, t \in NodeTypes}]
         /\ \A k \in 1..n : nodes[k].id = k
    /\ ValidateNodes(nodes)
    /\ route = "direct"
    /\ edges \in EdgeLists(Range(DictKeys(nodes)), MaxRunEdges)
    /\ sched_pc = "call"
    /\ sched_result = <<>>
    /\ input_data \in FlowPayloads
    /\ wes = WesIdle
    /\ db = NoRow
    /\ runs = [r \in Runs |-> NewExecution("none", NoError)]
    /\ active_executions = {}
    /\ cancel = NoCancel
    /\ timeout_elapsed = FALSE
    /\ resolver = ResolverIdle
    /\ answerer = AnswererIdle

FlowNext ==
    \/ WES_Begin
    \/ WES_Node
    \/ WES_Finish

SpecFlow == FlowInit /\ [][FlowNext]_vars

\* ------------------------------------------------- Scenario A
\* start -> llm -> answer on the input {sys.query: "world"}; the three
\* nodes and the two edges are declared in any order.
ScenarioPayload == ("sys.query" :> "world")

ScenarioInit ==
    /\ nodes \in [1..3 -> {[id |-> k, type |-> t] : k \in 1..3, t \in NodeTypes}]
    /\ \A k \in 1..3 : nodes[k].id = k
    /\ \A t \in NodeTypes : \E k \in 1..3 : nodes[k].type = t
    /\ LET at(t) == CHOOSE k \in 1..3 : nodes[k].type = t
           first == [source |-> at("start"), target |-> at("llm")]
           second == [source |-> at("llm"), target |-> at("answer")]
       IN edges \in {<<first, second>>, <<second, first>>}
    /\ route = "direct"
    /\ sched_pc = "call"
    /\ sched_result = <<>>
    /\ input_data = ScenarioPayload
    /\ wes = WesIdle
    /\ db = NoRow
    /\ runs = [r \in Runs |-> NewExecution("none", NoError)]
    /\ active_executions = {}
    /\ cancel = NoCancel
    /\ timeout_elapsed = FALSE
    /\ resolver = ResolverIdle
    /\ answerer = AnswererIdle

SpecScenarioA == ScenarioInit /\ [][FlowNext]_vars

\* ------------------------------------------------- answer node alone
\* The outputs dicts of the records the answer node scans: any of the
\* fields text, output and result (a result may be a string or not), or
\* another field only.
AnswerFieldValue(field, flavour) ==
    CASE field = "text" -> <<"a1", "a2">>[flavour]
      [] field = "output" -> <<"b1", "b2">>[flavour]
      [] field = "result" -> <<"<True>", "c2">>[flavour]

AnswerOutputs ==
    {[field \in fields |-> AnswerFieldValue(field, flavour)] :
        fields \in SUBSET {"text", "output", "result"}, flavour \in {1, 2}}
    \cup {("body" :> "d")}

AnswerInit ==
    /\ nodes = <<>>
    /\ edges = <<>>
    /\ sched_pc = "call"
    /\ sched_result = <<>>
    /\ route = "none"
    /\ input_data = EmptyDict
    /\ wes = WesIdle
    /\ db = NoRow
    /\ runs = [r \in Runs |-> NewExecution("none", NoError)]
    /\ active_executions = {}
    /\ cancel = NoCancel
    /\ timeout_elapsed = FALSE
    /\ resolver = ResolverIdle
    /\ \E ds \in SeqsUpTo(AnswerOutputs, MaxRecords) :
           answerer = [AnswererIdle EXCEPT
               !.pc = "call",
               !.node_outputs = [k \in 1..Len(ds) |->
                   [node_id |-> k, status |-> "completed", outputs |-> ds[k],
                    aliases_variables |-> FALSE]]]

AnswerCall ==
    /\ answerer.pc = "call"
    /\ answerer' = [answerer EXCEPT
           !.pc = "return",
           !.result = ExecuteAnswerNode(answerer.node_outputs, EmptyDict)]
    /\ UNCHANGED <<resolver, nodes, edges, sched_pc, sched_result, route,
                   input_data, wes, db, runs, active_executions, cancel,
                   timeout_elapsed>>

AnswerNext == AnswerCall

SpecAnswer == AnswerInit /\ [][AnswerNext]_vars

\* ------------------------------------------------- scheduler alone
SchedInit ==
    /\ \E s \in IdLists(MaxNodes) :
           nodes = [k \in 1..Len(s) |-> [id |-> s[k], type |-> "start"]]
    /\ edges \in EdgeLists(Range(DictKeys(nodes)), MaxEdges)
    /\ sched_pc = "call"
    /\ sched_result = <<>>
    /\ route = "none"
    /\ input_data = EmptyDict
    /\ wes = WesIdle
    /\ db = NoRow
    /\ runs = [r \in Runs |-> NewExecution("none", NoError)]
    /\ active_executions = {}
    /\ cancel = NoCancel
    /\ timeout_elapsed = FALSE
    /\ resolver = ResolverIdle
    /\ answerer = AnswererIdle

SchedCall ==
    /\ sched_pc = "call"
    /\ sched_result' = GetExecutionOrder(nodes, edges)
    /\ sched_pc' = "return"
    /\ UNCHANGED <<answerer, resolver, nodes, edges, route, input_data, wes,
                   db, runs, active_executions, cancel, timeout_elapsed>>

SchedNext == SchedCall

SpecSched == SchedInit /\ [][SchedNext]_vars

\* ------------------------------------------------- C1
PositionIn(order, pos) == IndexOf(order, pos)

PositionsOfId(ns, id) == {k \in 1..Len(ns) : ns[k].id = id}

\* C1: for an acyclic graph with unique node ids, the returned list holds
\* every node exactly once, and the target of every edge sits at a strictly
\* greater index than its source.
C1_TopologicalOrder ==
    (sched_pc = "return" /\ IsAcyclic(nodes, edges) /\ UniqueIds(nodes)) =>
        /\ Len(sched_result) = Len(nodes)
        /\ \A k \in 1..Len(nodes) :
               Cardinality({j \in 1..Len(sched_result) : sched_result[j] = k}) = 1
        /\ \A e \in 1..Len(edges) :
               \A u \in PositionsOfId(nodes, edges[e].source) :
                   \A v \in PositionsOfId(nodes, edges[e].target) :
                       PositionIn(sched_result, u) < PositionIn(sched_result, v)

\* A diamond-free chain declared backwards: three nodes, edges 3->2->1.
C1_Witness ==
    /\ sched_pc = "return"
    /\ IsAcyclic(nodes, edges) /\ UniqueIds(nodes)
    /\ Len(nodes) = 3
    /\ EdgePairs(edges) = {<<3, 2>>, <<2, 1>>}
    /\ sched_result = <<3, 2, 1>>

\* ------------------------------------------------- C2
TypesOf(evs) == [k \in 1..Len(evs) |-> evs[k].type]

\* C2: a run of WorkflowExecutionService.execute_workflow on a graph with a
\* cycle ends Failed with execution_failed as its last event, and no node is
\* executed: no progress_update, node_completed or node_failed is yielded.
C2_CyclicGraphFailsBeforeAnyNode ==
    (wes.pc = "done" /\ HasCycle(nodes, edges)) =>
        /\ wes.status = "failed"
        /\ wes.events[Len(wes.events)].type = "execution_failed"
        /\ Range(TypesOf(wes.events)) \cap
               {"progress_update", "node_completed", "node_failed"} = {}
        /\ wes.node_outputs = <<>>

StartedNodes(x) ==
    {x.events[k].node_id : k \in {j \in 1..Len(x.events) :
                                      x.events[j].type = "node_started"}}

C5_ExecutorFailureFailsTheRun ==
    \A k \in 1..Len(wes.node_outputs) :
        (IsAcyclic(nodes, edges) /\ wes.node_outputs[k].status = "failed") =>
            /\ \E j \in 1..Len(wes.events) :
                   /\ wes.events[j].type = "node_failed"
                   /\ wes.events[j].node_id = wes.node_outputs[k].node_id
            /\ wes.status = "failed"
            /\ wes.error_message = NodeFailedError(wes.node_outputs[k].node_id)
            /\ k = Len(wes.node_outputs)
            /\ wes.pc = "done" =>
                   wes.events[Len(wes.events)].type = "execution_failed"

\* ------------------------------------------------- C6
\* C6: once the status of an execution, in memory or in its persisted row,
\* is Completed, Failed or Cancelled, no step changes it.
C6_NoTransitionOutOfTerminal ==
    [][/\ db.status \in TerminalStatuses => db'.status = db.status
       /\ \A r \in Runs :
              runs[r].status \in TerminalStatuses =>
                  runs'[r].status = runs[r].status]_vars

\* ------------------------------------------------- C7
\* C7: a cancellation request is accepted exactly when the execution is
\* Running, and an accepted request leaves the execution Cancelled.
C7_CancelTransitionsToCancelled ==
    [][(cancel.resp = "none" /\ cancel'.resp # "none") =>
          IF db.status = "running"
          THEN cancel'.resp = "accepted" /\ db'.status = "cancelled"
          ELSE cancel'.resp = "rejected" /\ db'.status = db.status]_vars

C9_TimeoutFailsTheRun ==
    (timeout_elapsed /\ runs["task"].pc = "done") =>
        /\ runs["task"].status = "failed"
        /\ runs["task"].error_message.msg = "timeout"

\* ------------------------------------------------- C10
ProgressOf(evs) ==
    LET ps == SelectSeq(evs, LAMBDA ev : ev.type = "progress_update")
    IN [k \in 1..Len(ps) |-> ps[k].progress]

InUnitInterval(p) == p.d > 0 /\ 0 <= p.n /\ p.n <= p.d

NonDecreasingFractions(ps) ==
    /\ \A k \in 1..Len(ps) : InUnitInterval(ps[k])
    /\ \A k \in 1..(Len(ps) - 1) : FracLeq(ps[k], ps[k + 1])

\* C10: within one run of either driver the fractions of the progress
\* events, recorded and delivered, are non-decreasing and lie in [0, 1], and
\* no step of a run lowers the execution's progress field.
C10_ProgressMonotone ==
    /\ [](/\ NonDecreasingFractions(ProgressOf(wes.events))
          /\ \A r \in Runs :
                 /\ NonDecreasingFractions(ProgressOf(runs[r].events))
                 /\ NonDecreasingFractions(ProgressOf(runs[r].delivered))
                 /\ InUnitInterval(runs[r].progress))
    /\ [][\A r \in Runs : FracLeq(runs[r].progress, runs'[r].progress)]_vars

\* A three-node run that completed: fractions 0/3, 1/3, 2/3 and the final 1.
C10_Witness ==
    /\ Len(nodes) = 3
    /\ runs["task"].pc = "done"
    /\ runs["task"].status = "completed"
    /\ Len(ProgressOf(runs["task"].events)) = 4
    /\ runs["task"].progress = Frac(1, 1)
ExecutorCalls(x, k) ==
    Cardinality({j \in 1..Len(x.node_logs) : x.node_logs[j].node_id = nodes[k].id})

RECURSIVE WesScopeAlone(_, _)
WesScopeAlone(payload, node_outputs) ==
    IF node_outputs = <<>> THEN payload
    ELSE LET rec == node_outputs[Len(node_outputs)]
             front == WesScopeAlone(payload,
                          SubSeq(node_outputs, 1, Len(node_outputs) - 1))
         IN IF rec.aliases_variables THEN front ELSE DictUpdate(front, rec.outputs)

\* The same for a run of ExecutionService: the last output is under "input".
EsScopeAlone(payload, node_outputs) ==
    IF node_outputs = <<>> THEN payload
    ELSE DictUpdate(payload, "input" :> node_outputs[Len(node_outputs)].output)

\* The contexts of the three runs: variable scope and node-output map.
ContextOf(c) ==
    IF c = "wes" THEN <<wes.variables, wes.node_outputs>>
    ELSE <<runs[c].variables, runs[c].node_outputs>>

ContextOfNext(c) ==
    IF c = "wes" THEN <<wes'.variables, wes'.node_outputs>>
    ELSE <<runs'[c].variables, runs'[c].node_outputs>>

IsSubstringAt(s, sub, p) == p + Len(sub) - 1 <= Len(s) /\ SubSeq(s, p, p + Len(sub) - 1) = sub

IsSubstring(s, sub) == \E p \in 1..(Len(s) + 1) : IsSubstringAt(s, sub, p)

\* The value the resolver finds for the placeholder with group `raw`.
ResolvedAs(raw) ==
    ResolveValue(Strip(raw), resolver.variables, resolver.node_outputs)

\* C14: every placeholder of the template whose name resolves to nothing,
\* or to None, is found in the returned string as it stood in the template.
C14_UnresolvableLeftVerbatim ==
    resolver.pc = "return" =>
        \A m \in Range(FindAll(resolver.text)) :
            ResolvedAs(m).null => IsSubstring(resolver.result, Placeholder(m))

\* ------------------------------------------------- C15
\* C15: for every placeholder of the template whose trimmed name resolves to
\* a value, the returned string holds the value and no longer the placeholder.
C15_ResolvableSubstituted ==
    resolver.pc = "return" =>
        \A m \in Range(FindAll(resolver.text)) :
            ~ResolvedAs(m).null =>
                /\ IsSubstring(resolver.result, ResolvedAs(m).s)
                /\ ~IsSubstring(resolver.result, Placeholder(m))

\* ------------------------------------------------- C16
\* What a template resolves to against the run's context as it is now.
ResolvesTo(template) ==
    ReplaceVariables(template, WesScope(wes.variables),
                     WesOutputMap(wes.node_outputs, wes.variables))

\* C16: once node n completed with output field text = v, the template
\* {{n.text}} resolves to v, and {{text}} resolves to v while no node that
\* completed after n has text among its outputs.
C16_TextRoundTrip ==
    \A k \in 1..Len(wes.node_outputs) :
        LET rec == wes.node_outputs[k]
        IN "text" \in DOMAIN rec.outputs =>
              /\ ResolvesTo(Placeholder(<<IdNames[rec.node_id], ".", "text">>))
                     = <<rec.outputs["text"]>>
              /\ (\A j \in (k + 1)..Len(wes.node_outputs) :
                      "text" \notin DOMAIN wes.node_outputs[j].outputs) =>
                     ResolvesTo(Placeholder(<<"text">>)) = <<rec.outputs["text"]>>

\* ------------------------------------------------- C17
\* C17: in Scenario A every call of the completion provider carries the one
\* user message "Hi world", and a finished run whose llm node got a text
\* from the provider made exactly one call, is completed and has that text
\* as its answer.
C17_ScenarioA ==
    /\ \A k \in 1..Len(wes.completion_calls) :
           wes.completion_calls[k].messages =
               <<[role |-> "user", content |-> <<"Hi", " ", "world">>]>>
    /\ (/\ wes.pc = "done"
        /\ \E k \in 1..Len(wes.node_outputs) :
               /\ nodes[wes.node_outputs[k].node_id].type = "llm"
               /\ wes.node_outputs[k].status = "completed") =>
           /\ wes.status = "completed"
           /\ Len(wes.completion_calls) = 1
           /\ "answer" \in DOMAIN wes.output_data
           /\ wes.output_data["answer"] = wes.completion_calls[1].content

C17_Witness ==
    /\ wes.pc = "done"
    /\ wes.status = "completed"
    /\ wes.completion_calls # <<>>
    /\ wes.output_data["answer"] = "t2"

\* ------------------------------------------------- C18
\* What an output of the service driver reads now: the start executor
\* returns the context's own variables dict.
EsOutputContent(x, output) ==
    IF output = "<variables>" THEN x.variables ELSE output

\* C18: in both drivers, at every point after the start node completed, the
\* output recorded for it holds exactly the keys and values of the input
\* data the run was started with.
C18_StartOutputIsInput ==
    /\ \A k \in 1..Len(wes.node_outputs) :
           nodes[wes.node_outputs[k].node_id].type = "start" =>
               OutputsOf(wes.node_outputs[k], wes.variables) = input_data
    /\ \A r \in Runs : \A k \in 1..Len(runs[r].node_outputs) :
           nodes[runs[r].node_outputs[k].node_id].type = "start" =>
               EsOutputContent(runs[r], runs[r].node_outputs[k].output) = input_data

\* ------------------------------------------------- C19
\* The content of the k-th written record of node_outputs: what a reader
\* of node_outputs[node_id] gets.
RecordContent(w, k) ==
    [node_id |-> w.node_outputs[k].node_id,
     status |-> w.node_outputs[k].status,
     outputs |-> OutputsOf(w.node_outputs[k], w.variables)]

\* C19: in a run of WorkflowExecutionService.execute_workflow every node id
\* is written to node_outputs at most once, and no step changes the content
\* of a record that is already written.
C19_NodeOutputsWriteOnce ==
    /\ [](\A j, k \in 1..Len(wes.node_outputs) :
             wes.node_outputs[j].node_id = wes.node_outputs[k].node_id => j = k)
    /\ [][\A k \in 1..Len(wes.node_outputs) :
             /\ k <= Len(wes'.node_outputs)
             /\ RecordContent(wes', k) = RecordContent(wes, k)]_vars

\* ------------------------------------------------- C20
\* The records of the scanned map that expose text, output or result.
Exposing(node_outputs) ==
    {k \in 1..Len(node_outputs) :
        DOMAIN node_outputs[k].outputs \cap {"text", "output", "result"} # {}}

\* The field of an outputs dict the claim picks: text before output before
\* result.
PickedField(outs) ==
    IF "text" \in DOMAIN outs THEN "text"
    ELSE IF "output" \in DOMAIN outs THEN "output" ELSE "result"

\* C20 as claimed: the answer is the value of the picked field of the most
\* recently executed record that exposes text, output or result, the empty
\* string when there is none, and the call always returns an answer.
C20_AnswerIsMostRecentValue ==
    answerer.pc = "return" =>
        LET hits == Exposing(answerer.node_outputs)
            last == CHOOSE k \in hits : \A j \in hits : j <= k
            outs == answerer.node_outputs[last].outputs
        IN /\ "answer" \in DOMAIN answerer.result
           /\ answerer.result["answer"] =
                  IF hits = {} THEN "" ELSE outs[PickedField(outs)]

\* C20 amended: as C20, with the value of a result field passed through
\* str(); the values of text and output are returned as they are.
C20_AnswerIsMostRecentValueOrStr ==
    answerer.pc = "return" =>
        LET hits == Exposing(answerer.node_outputs)
            last == CHOOSE k \in hits : \A j \in hits : j <= k
            outs == answerer.node_outputs[last].outputs
        IN /\ "answer" \in DOMAIN answerer.result
           /\ answerer.result["answer"] =
                  IF hits = {} THEN ""
                  ELSE IF PickedField(outs) = "result"
                       THEN PyStr(outs["result"])
                       ELSE outs[PickedField(outs)]

C20_Witness ==
    /\ answerer.pc = "return"
    /\ Len(answerer.node_outputs) = 3
    /\ DOMAIN answerer.node_outputs[1].outputs = {"text", "result"}
    /\ answerer.node_outputs[2].outputs = ("output" :> "b1") @@ ("result" :> "<True>")
    /\ answerer.node_outputs[3].outputs = ("body" :> "d")
    /\ answerer.result["answer"] = "b1"

\* ------------------------------------------------- C21
\* The order the events of one run are emitted in.
EventOrderOk(evs) ==
    /\ evs # <<>> => evs[1].type = "workflow_started"
    /\ \A k \in 1..Len(evs) :
           /\ evs[k].type = "node_started" =>
                  /\ k < Len(evs) =>
                         /\ evs[k + 1].type \in {"node_completed", "node_failed"}
                         /\ evs[k + 1].node_id = evs[k].node_id
                  /\ \A j \in 1..Len(evs) :
                         (evs[j].type = "node_started"
                          /\ evs[j].node_id = evs[k].node_id) => j = k
           /\ evs[k].type \in {"node_completed", "node_failed"} =>
                  /\ k > 1
                  /\ evs[k - 1].type = "node_started"
                  /\ evs[k - 1].node_id = evs[k].node_id
           /\ evs[k].type = "node_failed" =>
                  \A j \in (k + 1)..Len(evs) : evs[j].type = "workflow_failed"
           /\ evs[k].type \in {"workflow_completed", "workflow_failed"} =>
                  k = Len(evs)

\* C21: in every run of ExecutionService.execute_workflow the events
\* emitted so far start with WorkflowStarted, pair every NodeStarted with
\* the one NodeCompleted or NodeFailed of its node right after it, have only
\* WorkflowFailed after a NodeFailed, and have nothing after the one
\* WorkflowCompleted or WorkflowFailed.
C21_EventOrder == \A r \in Runs : EventOrderOk(runs[r].delivered)

ReadyAfter(v, emitted) ==
    /\ v \notin emitted
    /\ \A e \in 1..Len(edges) :
           edges[e].target = nodes[v].id =>
               \E u \in emitted : nodes[u].id = edges[e].source

\* C23: with unique node ids, every node of the returned list is the
\* earliest declared of the nodes that were ready when it was emitted, so
\* the order is fixed by the node list and the edge set alone.
C23_TieBreakByDeclaration ==
    (sched_pc = "return" /\ UniqueIds(nodes)) =>
        \A p \in 1..Len(sched_result) :
            LET emitted == {sched_result[j] : j \in 1..(p - 1)}
            IN \A v \in 1..Len(nodes) :
                   ReadyAfter(v, emitted) => sched_result[p] <= v

\* ------------------------------------------------- C24
\* What the resolution order gives for a stripped name: for a dotted name
\* the field of the node's record when it is there and not None, else the
\* scope's entry under the whole name; for a bare name the scope's entry.
OrderedLookup(name, variables, node_outputs) ==
    LET dot == IndexOf(name, ".")
        n == Join(SubSeq(name, 1, dot - 1))
        f == Join(SubSeq(name, dot + 1, Len(name)))
        whole == Join(name)
        scoped == IF whole \in DOMAIN variables THEN variables[whole]
                  ELSE NoneValue
    IN IF dot = 0 THEN scoped
       ELSE IF /\ n \in DOMAIN node_outputs
               /\ f \in DOMAIN node_outputs[n]
               /\ ~node_outputs[n][f].null
            THEN node_outputs[n][f]
            ELSE scoped

\* C24: the value looked up for every placeholder of a template is the one
\* the resolution order gives its name (the node's record first for a
\* dotted name, the scope only when the record gives none; the scope alone
\* for a bare name), and a template that is one placeholder without
\* padding returns that value, or itself when there is none.
C24_ResolutionOrder ==
    resolver.pc = "return" =>
        \A m \in Range(FindAll(resolver.text)) :
            LET value == OrderedLookup(Strip(m), resolver.variables,
                                       resolver.node_outputs)
            IN /\ ResolvedAs(m) = value
               /\ (resolver.text = Placeholder(m) /\ Strip(m) = m) =>
                      resolver.result = IF value.null THEN resolver.text
                                        ELSE value.s

\* {{n.t}} on a scope that binds "n.t" to s and a record of n with t = w.
C24_Witness ==
    /\ resolver.pc = "return"
    /\ resolver.text = Placeholder(<<"n", ".", "t">>)
    /\ "n.t" \in DOMAIN resolver.variables
    /\ "n" \in DOMAIN resolver.node_outputs
    /\ ~resolver.node_outputs["n"]["t"].null
    /\ resolver.result = <<"w">>

\* ------------------------------------------------- C25
\* What the k-th node log of a run reads now.
LogContent(x, k) ==
    [node_id |-> x.node_logs[k].node_id,
     status |-> x.node_logs[k].status,
     output_data |-> IF x.node_logs[k].output_data.set
                     THEN EsOutputContent(x, x.node_logs[k].output_data.result)
                     ELSE ""]

C26_NoStartNodeFailsTheRun ==
    StartNodes(nodes) = {} =>
        /\ wes.pc = "done" =>
               /\ wes.status = "failed"
               /\ wes.events =
                      <<WesEvent("execution_started", 0, NoProgress, NoError),
                        WesEvent("execution_failed", 0, NoProgress, NoStartError)>>
               /\ wes.node_outputs = <<>>
        /\ \A r \in Runs : runs[r].pc = "done" =>
               /\ runs[r].status = "failed"
               /\ runs[r].delivered =
                      <<EsEvent("workflow_started", 0, NoProgress, NoError),
                        EsEvent("workflow_failed", 0, NoProgress, NoStartError)>>
               /\ runs[r].node_logs = <<>>

\* ------------------------------------------------- C27
\* The node id sits on a cycle of the edges.
OnCycle(id) == Reaches(nodes, edges, id, id)

\* The node id sits on a cycle or is reachable from a node on one.
OnOrBehindCycle(id) ==
    \E k \in 1..Len(nodes) :
        /\ OnCycle(nodes[k].id)
        /\ nodes[k].id = id \/ Reaches(nodes, edges, nodes[k].id, id)

\* C27: for every node list and edge list, cyclic or not, the returned list
\* has no node and no node id twice, holds exactly the node ids that are
\* neither on a cycle nor reachable from one, and has the source of every
\* edge between two returned nodes at a lower index than its target.
C27_OrderOfAnyGraph ==
    sched_pc = "return" =>
        LET ids == [j \in 1..Len(sched_result) |-> nodes[sched_result[j]].id]
        IN /\ \A i, j \in 1..Len(ids) : ids[i] = ids[j] => i = j
           /\ Range(ids) = {nodes[k].id : k \in 1..Len(nodes)}
                              \ {id \in Range(DictKeys(nodes)) : OnOrBehindCycle(id)}
           /\ \A e \in 1..Len(edges) :
                  (edges[e].source \in Range(ids) /\ edges[e].target \in Range(ids)) =>
                      IndexOf(ids, edges[e].source) < IndexOf(ids, edges[e].target)

\* Three nodes: n2 on a self-loop, n3 behind it, n1 free; only n1 returns.
C27_Witness ==
    /\ sched_pc = "return"
    /\ UniqueIds(nodes)
    /\ Len(nodes) = 3
    /\ OnCycle(2)
    /\ ~OnCycle(3)
    /\ OnOrBehindCycle(3)
    /\ sched_result = <<1>>

\* ------------------------------------------------- C28
\* C28: a run of ExecutionService.execute_workflow that has ended, every
\* executor and persistence call having returned or raised, has a terminal
\* status and has delivered WorkflowCompleted or WorkflowFailed as the last
\* event of its stream.
C28_RunEndsWithTerminalEvent ==
    \A r \in Runs : runs[r].pc = "done" =>
        /\ runs[r].status \in {"completed", "failed"}
        /\ runs[r].delivered # <<>>
        /\ runs[r].delivered[Len(runs[r].delivered)].type
               \in {"workflow_completed", "workflow_failed"}

ResolvedAlone(piece) ==
    ReplaceVariables(piece, resolver.variables, resolver.node_outputs)

\* The unpadded placeholders of the templates.
PlainPlaceholders ==
    {Placeholder(name) : name \in {<<"x">>, <<"u">>, <<"k">>,
                                    <<"n", ".", "t">>, <<"n", ".", "z">>}}

\* C30: resolution is single-pass and independent of the order of the
\* placeholders: a template of two placeholders with a blank between them
\* resolves to what each placeholder resolves to alone, in the same places,
\* so text a value inserted (such as "{{u}}" held by x) stays verbatim.
C30_SinglePass ==
    resolver.pc = "return" =>
        \A p, q \in PlainPlaceholders :
            resolver.text = p \o <<" ">> \o q =>
                resolver.result = ResolvedAlone(p) \o <<" ">> \o ResolvedAlone(q)

====
